---------------------------- MODULE Spec2Model ----------------------------
(***************************************************************************)
(* Model of lsst.meas.astrom: AstrometryTask.solve (astrometry.py) and the *)
(* older Astrometry.determineWcs2 (astrom.py), with the metadata builders, *)
(* and the methods of Astrometry that can be called on their own:          *)
(* _calculateSipTerms, getReferenceSourcesForWcs and getReferenceSources.  *)
(*                                                                         *)
(* One entry point is active at a time (variable call); its position is    *)
(* pc.  The reference loader, the matcher and the WCS fitter are separate  *)
(* tasks whose code is not in the files modelled here; they are modelled   *)
(* as nondeterministic choices over the results their contracts allow.     *)
(***************************************************************************)
EXTENDS Integers, Sequences, FiniteSets, TLC

(***************************************************************************)
(* Bounds of the model.                                                    *)
(***************************************************************************)
MaxIterBound == 3     \* config.maxIter ranges over 1..MaxIterBound
MaxMatches == 2       \* sizes of the reference and the source catalogue
MaxDist == 1          \* match.distance ranges over 0..MaxDist distance units
MaxScatter == 1       \* scatterOnSky ranges over 0..MaxScatter
MaxIndexFiles == 2    \* len(andConfig.indexFiles) ranges over 0..MaxIndexFiles

(***************************************************************************)
(* Python values.                                                          *)
(***************************************************************************)
None == [none |-> TRUE]
Str(s) == [str |-> s]
Angle(a) == [asArcseconds |-> a]

\* radToArcsec of one distance unit: distances are counted in units of
\* (ArcsecPerDistUnit arcsec) expressed in radians.
ArcsecPerDistUnit == 2

InitWcs == 0          \* identity of the WCS handed to solve
FilterNames == {None, Str(""), Str("r")}

Min(a, b) == IF a <= b THEN a ELSE b

RECURSIVE SumSeq(_)
SumSeq(s) == IF s = <<>> THEN 0 ELSE Head(s) + SumSeq(Tail(s))

RECURSIVE SumSqSeq(_)
SumSqSeq(s) == IF s = <<>> THEN 0 ELSE Head(s) * Head(s) + SumSqSeq(Tail(s))

(***************************************************************************)
(* numpy.mean(x) + 2.0*numpy.std(x) is irrational in general.  It is kept  *)
(* exactly, as the triple (n, s, q) = (len, sum, sum of squares), standing *)
(* for  s/n + 2*sqrt(q/n - (s/n)^2);  n = 0 stands for nan (numpy's mean   *)
(* and std of an empty list).                                              *)
(***************************************************************************)
MeanPlus2Std(x) == [n |-> Len(x), s |-> SumSeq(x), q |-> SumSqSeq(x)]

\* radToArcsec scales the value: every sample is scaled by ArcsecPerDistUnit.
RadToArcsec(v) ==
    [n |-> v.n, s |-> ArcsecPerDistUnit * v.s,
     q |-> ArcsecPerDistUnit * ArcsecPerDistUnit * v.q]

\* An exact number a, in the same representation.
Exact(a) == [n |-> 1, s |-> a, q |-> a * a]

IsNan(v) == v.n = 0

\* a <= b for two such values (IEEE: false when either is nan).
\* With A = n_b*s_a, C = n_b^2 * 4(n_a q_a - s_a^2) and likewise for b, the
\* comparison is  A_a + sqrt(C_a) <= A_b + sqrt(C_b).
LeqVal(a, b) ==
    IF IsNan(a) \/ IsNan(b) THEN FALSE
    ELSE LET Aa == b.n * a.s
             Ab == a.n * b.s
             Ca == b.n * b.n * 4 * (a.n * a.q - a.s * a.s)
             Cb == a.n * a.n * 4 * (b.n * b.q - b.s * b.s)
             e  == Ab - Aa
             r  == Ca + Cb - e * e
         IN  IF e >= 0
             THEN Ca <= Cb \/ r <= 0 \/ r * r <= 4 * Ca * Cb
             ELSE Cb > Ca /\ r >= 0 /\ r * r >= 4 * Ca * Cb

(***************************************************************************)
(* Match lists.  solve reads only the length of a match list (lines 226,   *)
(* 231) and the distance of each match (line 242), so a match list is the  *)
(* sequence of its distances, kept in nondecreasing order.                 *)
(***************************************************************************)
IsNondecreasing(m) == \A k \in 1..(Len(m) - 1) : m[k] <= m[k + 1]

MatchListsOfLen(k) == {m \in [1..k -> 0..MaxDist] : IsNondecreasing(m)}

AllMatchLists == UNION {MatchListsOfLen(k) : k \in 0..MaxMatches}


(***************************************************************************)
(* State.                                                                  *)
(***************************************************************************)
VARIABLES
    call,                 \* entry point being executed: "none", "solve", ...
    pc,                   \* position in it; "done" = returned, "raised" = exception
    err,                  \* the exception raised, or None
    \* ---- AstrometryTask.solve: configuration and arguments
    config,               \* AstrometryConfig: [maxIter, forceKnownWcs]
    filterName,           \* filterName argument
    nSources,             \* len(sourceCat)
    \* ---- AstrometryTask.solve: locals
    loadRes,              \* result of refObjLoader.loadPixelBox, or None
    i,                    \* loop index
    res,                  \* accepted result, or None
    tryRes,               \* result of this iteration, or None
    wcs,                  \* WCS the next iteration starts from
    maxMatchDistArcSec,   \* tolerance for the next iteration, or None
    matchRes,             \* matcher output while inside _matchAndFitWcs, else None
    retVal,               \* the Struct returned by solve, or None
    \* ---- history of the solve call (not program state)
    nLoad,                \* calls of refObjLoader.loadPixelBox
    nMatchAndFit,         \* calls of _matchAndFitWcs
    nFitter,              \* calls of wcsFitter.fitWcs
    nCompare,             \* comparisons with the previous iteration (lines 225-235)
    firstMatchEmpty,      \* the first match attempt yielded zero matches
    zeroAfterFirst,       \* an iteration after the first yielded zero matches
    \* ---- Astrometry.determineWcs2 (astrom.py)
    dwIn,                 \* its arguments and andConfig: which are given
    dwLoc,                \* its locals: imageSize, wcs, pixelScale, radecCenter, searchRadius
    solver,               \* the astrometry_net solver made by _getSolver, or None
    effects,              \* calls made on the solver, the catalogue and the exposure, in order
    astrom,               \* the InitialAstrometry being filled, or None
    \* ---- metadata builders called on their own
    meta,                 \* the metadata record built, or None
    \* ---- Astrometry._calculateSipTerms called on its own
    sip,                  \* its arguments and locals, or None
    \* ---- Astrometry.getReferenceSources and getReferenceSourcesForWcs
    refs,                 \* their arguments, andConfig and locals, or None
    \* ---- AstrometryTask.run
    exposureWcs,          \* the WCS the exposure holds
    \* ---- history of the solve call (not program state)
    bestTried             \* match count and scatter of the best iteration tried, or None

solveVars == <<config, filterName, nSources, loadRes, i, res, tryRes, wcs,
               maxMatchDistArcSec, matchRes, retVal>>
histVars == <<nLoad, nMatchAndFit, nFitter, nCompare, firstMatchEmpty, zeroAfterFirst>>
dwVars == <<dwIn, dwLoc, solver, effects, astrom>>
auxVars == <<sip, refs>>
runVars == <<exposureWcs, bestTried>>
vars == <<call, pc, err, solveVars, histVars, dwVars, meta, auxVars, runVars>>

Ended == pc \in {"done", "raised"}

Init ==
    /\ call = "none"
    /\ pc = "idle"
    /\ err = None
    /\ config = [maxIter |-> 1, forceKnownWcs |-> FALSE]
    /\ filterName = None
    /\ nSources = 0
    /\ loadRes = None
    /\ i = 0
    /\ res = None
    /\ tryRes = None
    /\ wcs = InitWcs
    /\ maxMatchDistArcSec = None
    /\ matchRes = None
    /\ retVal = None
    /\ nLoad = 0
    /\ nMatchAndFit = 0
    /\ nFitter = 0
    /\ nCompare = 0
    /\ firstMatchEmpty = FALSE
    /\ zeroAfterFirst = FALSE
    /\ dwIn = None
    /\ dwLoc = None
    /\ solver = None
    /\ effects = <<>>
    /\ astrom = None
    /\ meta = None
    /\ sip = None
    /\ refs = None
    /\ exposureWcs = InitWcs
    /\ bestTried = None

(***************************************************************************)
(* The subtasks of AstrometryTask.                                         *)
(***************************************************************************)
\* The matcher's own maximum distance, used when maxMatchDistArcSec is None:
\* it admits every distance of the model.
MatcherDefaultDistArcSec == ArcsecPerDistUnit * MaxDist

EffectiveTolerance(tol) ==
    IF tol = None THEN Exact(MatcherDefaultDistArcSec) ELSE tol

\* A distance d (distance units) is within the tolerance (arcsec).
WithinTolerance(d, tol) ==
    LeqVal(Exact(ArcsecPerDistUnit * d), EffectiveTolerance(tol))

\* matcher.matchObjectsToSources: pairs within the tolerance; at most one
\* match per reference object and per source.
MatchObjectsToSourcesResults(nRef, nSrc, tol) ==
    {m \in AllMatchLists :
        /\ Len(m) <= Min(nRef, nSrc)
        /\ \A k \in 1..Len(m) : WithinTolerance(m[k], tol)}

\* refObjLoader.loadPixelBox: the catalogue may hold duplicate entries, two
\* objects with one identifier; whether a catalogue of n objects does.
RefCatDuplicateIds(n) == {dup \in BOOLEAN : dup => n >= 2}

\* wcsFitter.fitWcs: a new WCS and its scatter; it rewrites the distance of
\* every match as the separation under the new WCS.
FitWcsResults(matches, newWcs) ==
    {[matches |-> m, wcs |-> newWcs, scatterOnSky |-> Angle(s)] :
        m \in MatchListsOfLen(Len(matches)), s \in 0..MaxScatter}

(***************************************************************************)
(* AstrometryTask.solve                                                    *)
(***************************************************************************)
\* Variant of LoopContinues: the loop runs one pass too many.
LoopContinuesOffByOne(k, cfg) == k <= cfg.maxIter

\* for i in range(self.config.maxIter)
LoopContinues(k, cfg) == k < cfg.maxIter

LoopPc(k, cfg) == IF LoopContinues(k, cfg) THEN "match" ELSE "return"

\* Variant of UsesFitter: the fitter is called whatever forceKnownWcs is.
UsesFitterAlways(cfg) == TRUE

\* _matchAndFitWcs, line 297: if not self.config.forceKnownWcs
UsesFitter(cfg) == ~cfg.forceKnownWcs

\* Variant of Regressed: the break of lines 231-235 is missing.
RegressedFewerOnly(try, acc) == Len(try.matches) < Len(acc.matches)

\* Variant of Regressed: equal matches break only on strictly worse scatter.
RegressedStrictScatter(try, acc) ==
    \/ Len(try.matches) < Len(acc.matches)
    \/ /\ Len(try.matches) = Len(acc.matches)
       /\ try.scatterOnSky.asArcseconds > acc.scatterOnSky.asArcseconds

\* lines 226 and 231: the two conditions that break out of the loop
Regressed(try, acc) ==
    \/ Len(try.matches) < Len(acc.matches)
    \/ /\ Len(try.matches) = Len(acc.matches)
       /\ try.scatterOnSky.asArcseconds >= acc.scatterOnSky.asArcseconds

\* Variant of AfterForceKnownWcs: the break of line 218 is missing.
AfterForceKnownWcsNoBreak(k, cfg) == LoopPc(k + 1, cfg)

\* lines 215-218: where control goes after the first pass when forceKnownWcs
AfterForceKnownWcs(k, cfg) == "return"

\* lines 242-243
NextMaxMatchDist(matches) == RadToArcsec(MeanPlus2Std(matches))

\* _createMatchMetadata
CreateMatchMetadata(bbox, w, fname) ==
    LET base == ("RA" :> [ctrCoord |-> <<bbox, w>>])
             @@ ("DEC" :> [ctrCoord |-> <<bbox, w>>])
             @@ ("RADIUS" :> [approxRadius |-> <<bbox, w>>])
             @@ ("SMATCHV" :> 1)
    IN  IF fname # None THEN base @@ ("FILTER" :> fname) ELSE base

\* Variant of SolveStruct: initWcs is the WCS the loop ended with.
SolveStructLoopWcs(lr, r, dup, fname) ==
    [refCat |-> [size |-> lr.refCat, duplicateIds |-> dup],
     matches |-> r.matches,
     initWcs |-> r.wcs,
     wcs |-> r.wcs,
     scatterOnSky |-> r.scatterOnSky,
     matchMeta |-> CreateMatchMetadata("bbox", r.wcs, fname)]

\* Variant of SolveStruct: the metadata is made from the initial WCS.
SolveStructMetaOfInitWcs(lr, r, dup, fname) ==
    [refCat |-> [size |-> lr.refCat, duplicateIds |-> dup],
     matches |-> r.matches,
     initWcs |-> InitWcs,
     wcs |-> r.wcs,
     scatterOnSky |-> r.scatterOnSky,
     matchMeta |-> CreateMatchMetadata("bbox", InitWcs, fname)]

\* lines 247-254: the Struct that solve returns, from loadRes, res, the
\* arguments initWcs, bbox and filterName
SolveStruct(lr, r, dup, fname) ==
    [refCat |-> [size |-> lr.refCat, duplicateIds |-> dup],
     matches |-> r.matches,
     initWcs |-> InitWcs,
     wcs |-> r.wcs,
     scatterOnSky |-> r.scatterOnSky,
     matchMeta |-> CreateMatchMetadata("bbox", r.wcs, fname)]

\* history: attempt a has more matches than b, or as many with less scatter
StrictlyBetter(a, b) ==
    \/ a.nMatches > b.nMatches
    \/ a.nMatches = b.nMatches /\ a.scatter < b.scatter

CallSolve ==
    /\ pc = "idle"
    /\ \E mi \in 1..MaxIterBound, f \in BOOLEAN, fn \in FilterNames, ns \in 0..MaxMatches :
          /\ config' = [maxIter |-> mi, forceKnownWcs |-> f]
          /\ filterName' = fn
          /\ nSources' = ns
    /\ call' = "solve"
    /\ pc' = "load"
    /\ err' = None
    /\ loadRes' = None
    /\ i' = 0
    /\ res' = None
    /\ tryRes' = None
    /\ wcs' = InitWcs
    /\ maxMatchDistArcSec' = None
    /\ matchRes' = None
    /\ retVal' = None
    /\ nLoad' = 0
    /\ nMatchAndFit' = 0
    /\ nFitter' = 0
    /\ nCompare' = 0
    /\ firstMatchEmpty' = FALSE
    /\ zeroAfterFirst' = FALSE
    /\ UNCHANGED <<dwVars, meta, auxVars>>
    /\ UNCHANGED runVars

\* lines 184-203
LoadPixelBox ==
    /\ call = "solve" /\ pc = "load"
    /\ \E n \in 0..MaxMatches : loadRes' = [refCat |-> n, wcs |-> wcs]
    /\ nLoad' = nLoad + 1
    /\ pc' = LoopPc(0, config)
    /\ UNCHANGED <<call, err, config, filterName, nSources, i, res, tryRes, wcs,
                   maxMatchDistArcSec, matchRes, retVal>>
    /\ UNCHANGED <<nMatchAndFit, nFitter, nCompare, firstMatchEmpty, zeroAfterFirst>>
    /\ UNCHANGED <<dwVars, meta, auxVars>>
    /\ UNCHANGED runVars

\* lines 205-213 and 277-284: _matchAndFitWcs is entered and calls the matcher
MatchObjectsToSources ==
    /\ call = "solve" /\ pc = "match"
    /\ \E m \in MatchObjectsToSourcesResults(loadRes.refCat, nSources, maxMatchDistArcSec) :
          /\ matchRes' = [matches |-> m, wcs |-> wcs, refCat |-> loadRes.refCat]
          /\ firstMatchEmpty' = IF i = 0 THEN Len(m) = 0 ELSE firstMatchEmpty
          /\ zeroAfterFirst' = (zeroAfterFirst \/ (i > 0 /\ Len(m) = 0))
    /\ nMatchAndFit' = nMatchAndFit + 1
    /\ pc' = "fit"
    /\ UNCHANGED <<call, err, config, filterName, nSources, loadRes, i, res, tryRes,
                   wcs, maxMatchDistArcSec, retVal>>
    /\ UNCHANGED <<nLoad, nFitter, nCompare>>
    /\ UNCHANGED <<dwVars, meta, auxVars>>
    /\ UNCHANGED runVars

\* lines 297-307 and 324-328: the fitter returns
FitWcs ==
    /\ call = "solve" /\ pc = "fit"
    /\ UsesFitter(config)
    /\ tryRes' \in FitWcsResults(matchRes.matches, i + 1)
    /\ matchRes' = None
    /\ nFitter' = nFitter + 1
    /\ pc' = "check"
    /\ UNCHANGED <<call, err, config, filterName, nSources, loadRes, i, res, wcs,
                   maxMatchDistArcSec, retVal>>
    /\ UNCHANGED <<nLoad, nMatchAndFit, nCompare, firstMatchEmpty, zeroAfterFirst>>
    /\ bestTried' = LET t == [nMatches |-> Len(tryRes'.matches),
                               scatter |-> tryRes'.scatterOnSky.asArcseconds]
                    IN  IF bestTried = None \/ StrictlyBetter(t, bestTried)
                        THEN t ELSE bestTried
    /\ UNCHANGED <<dwVars, meta, auxVars, exposureWcs>>

\* lines 299-305: the fitter raises; neither _matchAndFitWcs nor solve catches it
FitWcsRaises ==
    /\ call = "solve" /\ pc = "fit"
    /\ UsesFitter(config)
    /\ nFitter' = nFitter + 1
    /\ pc' = "raised"
    /\ err' = Str("FitError")
    /\ UNCHANGED <<call, config, filterName, nSources, loadRes, i, res, tryRes, wcs,
                   maxMatchDistArcSec, matchRes, retVal>>
    /\ UNCHANGED <<nLoad, nMatchAndFit, nCompare, firstMatchEmpty, zeroAfterFirst>>
    /\ UNCHANGED <<dwVars, meta, auxVars>>
    /\ UNCHANGED runVars

\* lines 308-311 and 324-328
NotFittingWcs ==
    /\ call = "solve" /\ pc = "fit"
    /\ ~UsesFitter(config)
    /\ tryRes' = [matches |-> matchRes.matches, wcs |-> wcs, scatterOnSky |-> None]
    /\ matchRes' = None
    /\ pc' = "check"
    /\ UNCHANGED <<call, err, config, filterName, nSources, loadRes, i, res, wcs,
                   maxMatchDistArcSec, retVal>>
    /\ UNCHANGED histVars
    /\ UNCHANGED <<dwVars, meta, auxVars>>
    /\ UNCHANGED runVars

\* lines 215-218
ForceKnownWcsBreak ==
    /\ call = "solve" /\ pc = "check"
    /\ config.forceKnownWcs
    /\ res' = tryRes
    /\ pc' = AfterForceKnownWcs(i, config)
    /\ i' = IF pc' = "match" THEN i + 1 ELSE i
    /\ UNCHANGED <<call, err, config, filterName, nSources, loadRes, tryRes, wcs,
                   maxMatchDistArcSec, matchRes, retVal>>
    /\ UNCHANGED histVars
    /\ UNCHANGED <<dwVars, meta, auxVars>>
    /\ UNCHANGED runVars

\* lines 225-235: one of the two breaks is taken
RegressionBreak ==
    /\ call = "solve" /\ pc = "check"
    /\ ~config.forceKnownWcs
    /\ res # None
    /\ Regressed(tryRes, res)
    /\ nCompare' = nCompare + 1
    /\ pc' = "return"
    /\ UNCHANGED <<call, err, solveVars>>
    /\ UNCHANGED <<nLoad, nMatchAndFit, nFitter, firstMatchEmpty, zeroAfterFirst>>
    /\ UNCHANGED <<dwVars, meta, auxVars>>
    /\ UNCHANGED runVars

\* lines 225-245: no break; the result is accepted and the loop goes on
AcceptIteration ==
    /\ call = "solve" /\ pc = "check"
    /\ ~config.forceKnownWcs
    /\ res # None => ~Regressed(tryRes, res)
    /\ nCompare' = IF res # None THEN nCompare + 1 ELSE nCompare
    /\ res' = tryRes
    /\ wcs' = tryRes.wcs
    /\ maxMatchDistArcSec' = NextMaxMatchDist(tryRes.matches)
    /\ i' = i + 1
    /\ pc' = LoopPc(i + 1, config)
    /\ UNCHANGED <<call, err, config, filterName, nSources, loadRes, tryRes,
                   matchRes, retVal>>
    /\ UNCHANGED <<nLoad, nMatchAndFit, nFitter, firstMatchEmpty, zeroAfterFirst>>
    /\ UNCHANGED <<dwVars, meta, auxVars>>
    /\ UNCHANGED runVars

\* lines 247-254.  No statement of solve reads an identifier of
\* loadRes.refCat (the loop reads its size through the matcher only), so what
\* the identifiers are is drawn here, where the catalogue is handed back.
ReturnStruct ==
    /\ call = "solve" /\ pc = "return"
    /\ \E dup \in RefCatDuplicateIds(loadRes.refCat) :
          retVal' = SolveStruct(loadRes, res, dup, filterName)
    /\ pc' = "done"
    /\ UNCHANGED <<call, err, config, filterName, nSources, loadRes, i, res, tryRes,
                   wcs, maxMatchDistArcSec, matchRes>>
    /\ UNCHANGED histVars
    /\ UNCHANGED <<dwVars, meta, auxVars>>
    /\ UNCHANGED runVars



\* AstrometryTask.run, lines 152-160: run calls solve with the bounding box, the
\* WCS and the filter name of the exposure (line 154: an empty name is passed
\* as None) and, when solve has returned, gives the exposure the WCS of the
\* result.  solve does the same whoever calls it, so the call made by run is
\* any call of solve with a filter name that run passes; this is line 159
RunSetWcs ==
    /\ call = "solve" /\ pc = "done"
    /\ filterName # Str("")
    /\ exposureWcs' = retVal.wcs
    /\ call' = "run"
    /\ UNCHANGED <<pc, err, solveVars, histVars, dwVars, meta, auxVars, bestTried>>

SolveStep ==
    \/ LoadPixelBox
    \/ MatchObjectsToSources
    \/ FitWcs
    \/ FitWcsRaises
    \/ NotFittingWcs
    \/ ForceKnownWcsBreak
    \/ RegressionBreak
    \/ AcceptIteration
    \/ ReturnStruct

(***************************************************************************)
(* The metadata builders, called on their own.                             *)
(***************************************************************************)
\* AstrometryTask._createMatchMetadata is a static method
CallCreateMatchMetadata ==
    /\ pc = "idle"
    /\ \E fn \in FilterNames, w \in {InitWcs, 1} :
          /\ filterName' = fn
          /\ meta' = CreateMatchMetadata("bbox", w, fn)
    /\ call' = "_createMatchMetadata"
    /\ pc' = "done"
    /\ UNCHANGED <<err, config, nSources, loadRes, i, res, tryRes, wcs,
                   maxMatchDistArcSec, matchRes, retVal>>
    /\ UNCHANGED <<histVars, dwVars, auxVars>>
    /\ UNCHANGED runVars

\* astrom.py, _createMetadata: line 497 reads the name dafBase, which the module
\* never binds (lines 1-13), so the call raises NameError before any key is added
CallCreateMetadata ==
    /\ pc = "idle"
    /\ \E fn \in FilterNames : filterName' = fn
    /\ call' = "_createMetadata"
    /\ pc' = "raised"
    /\ err' = Str("NameError")
    /\ UNCHANGED <<config, nSources, loadRes, i, res, tryRes, wcs,
                   maxMatchDistArcSec, matchRes, retVal>>
    /\ UNCHANGED <<histVars, dwVars, meta, auxVars>>
    /\ UNCHANGED runVars

(***************************************************************************)
(* Astrometry.determineWcs2 (astrom.py).  An argument is modelled by       *)
(* whether it is given; a local by where its value comes from.             *)
(***************************************************************************)
DwInputs ==
    [exposure : {"none", "withWcs", "noWcs"},  \* exposure argument; has it a Wcs
     wcs : BOOLEAN,                            \* wcs is not None
     imageSize : BOOLEAN,                      \* imageSize is not None
     radecCenter : BOOLEAN,                    \* radecCenter is not None
     searchRadius : BOOLEAN,                   \* searchRadius is not None
     pixelScale : BOOLEAN,                     \* pixelScale is not None
     doTrim : BOOLEAN,
     usePixelScale : BOOLEAN,
     useRaDecCenter : BOOLEAN,
     nIndexFiles : 0..MaxIndexFiles]           \* len(andConfig.indexFiles)

Given(flag) == IF flag THEN Str("argument") ELSE None

\* Variant of HintConflict: the pixelScale check of line 129 is missing.
HintConflictCenterOnly(in) == ~in.useRaDecCenter /\ in.radecCenter

\* lines 125-130: a hint is given while its use flag is off
HintConflict(in) ==
    \/ ~in.useRaDecCenter /\ in.radecCenter
    \/ ~in.usePixelScale /\ in.pixelScale

\* lines 135-139
ImageSizeOf(in) ==
    IF in.imageSize THEN Str("argument")
    ELSE IF in.exposure # "none" THEN Str("exposure") ELSE None

\* lines 135, 140-141
WcsOf(in) ==
    IF in.wcs THEN Str("argument")
    ELSE IF in.exposure = "withWcs" THEN Str("exposure") ELSE None

\* lines 150-152
PixelScaleOf(in, w) ==
    IF in.pixelScale THEN Str("argument")
    ELSE IF w # None /\ in.usePixelScale THEN Str("wcs.pixelScale") ELSE None

\* lines 154-156
RadecCenterOf(in, w) ==
    IF in.radecCenter THEN Str("argument")
    ELSE IF w # None /\ in.useRaDecCenter THEN Str("wcs.pixelToSky") ELSE None

\* lines 158-159: the search radius is to be derived
DerivesSearchRadius(in, w) == w # None /\ ~in.searchRadius /\ in.useRaDecCenter

\* lines 158-162
SearchRadiusOf(in, w) ==
    IF in.searchRadius THEN Str("argument")
    ELSE IF DerivesSearchRadius(in, w) THEN Str("derived") ELSE None

CallDetermineWcs2 ==
    /\ pc = "idle"
    /\ dwIn' \in DwInputs
    /\ call' = "determineWcs2"
    /\ pc' = "dwValidate"
    /\ UNCHANGED <<err, solveVars, histVars, dwLoc, solver, effects, astrom, meta, auxVars>>
    /\ UNCHANGED runVars

\* lines 125-147
DwValidate ==
    /\ call = "determineWcs2" /\ pc = "dwValidate"
    /\ IF HintConflict(dwIn)
       THEN /\ pc' = "raised"
            /\ err' = Str("RuntimeError")
            /\ UNCHANGED <<dwLoc, astrom>>
       ELSE /\ astrom' = [matches |-> None, wcs |-> None]
            /\ IF ImageSizeOf(dwIn) = None
               THEN /\ pc' = "raised"
                    /\ err' = Str("RuntimeError")
                    /\ UNCHANGED dwLoc
               ELSE /\ dwLoc' = [imageSize |-> ImageSizeOf(dwIn),
                                 wcs |-> WcsOf(dwIn),
                                 pixelScale |-> Given(dwIn.pixelScale),
                                 radecCenter |-> Given(dwIn.radecCenter),
                                 searchRadius |-> Given(dwIn.searchRadius)]
                    /\ pc' = "dwHints"
                    /\ UNCHANGED err
    /\ UNCHANGED <<call, solveVars, histVars, dwIn, solver, effects, meta, auxVars>>
    /\ UNCHANGED runVars

\* lines 149-162
DwResolveHints ==
    /\ call = "determineWcs2" /\ pc = "dwHints"
    /\ LET ps == PixelScaleOf(dwIn, dwLoc.wcs)
       IN  IF DerivesSearchRadius(dwIn, dwLoc.wcs) /\ ps = None
           THEN \* assert(pixelScale is not None) fails
                /\ pc' = "raised"
                /\ err' = Str("AssertionError")
                /\ dwLoc' = [dwLoc EXCEPT !.pixelScale = ps,
                                          !.radecCenter = RadecCenterOf(dwIn, dwLoc.wcs)]
           ELSE /\ pc' = "dwTrim"
                /\ dwLoc' = [dwLoc EXCEPT !.pixelScale = ps,
                                          !.radecCenter = RadecCenterOf(dwIn, dwLoc.wcs),
                                          !.searchRadius = SearchRadiusOf(dwIn, dwLoc.wcs)]
                /\ UNCHANGED err
    /\ UNCHANGED <<call, solveVars, histVars, dwIn, solver, effects, astrom, meta, auxVars>>
    /\ UNCHANGED runVars

\* lines 165-173: both branches read a name that is never bound (afwImage at
\* line 168, _trimBadPoints at line 172)
DwTrim ==
    /\ call = "determineWcs2" /\ pc = "dwTrim"
    /\ IF dwIn.doTrim
       THEN pc' = "raised" /\ err' = Str("NameError")
       ELSE pc' = "dwSolve" /\ UNCHANGED err
    /\ UNCHANGED <<call, solveVars, histVars, dwVars, meta, auxVars>>
    /\ UNCHANGED runVars

\* _solve, lines 367-408: the solver is made and given the stars, the image size
\* and the search constraints.  No statement of _solve gives it a time or CPU
\* limit: timeLimit stays None
DwSolverSetup ==
    /\ call = "determineWcs2" /\ pc = "dwSolve"
    /\ IF dwLoc.radecCenter # None /\ dwLoc.searchRadius = None
       THEN \* line 377: searchRadius.asDegrees() on None
            /\ solver' = [center |-> FALSE, indexes |-> 0, ran |-> FALSE,
                           timeLimit |-> None]
            /\ effects' = effects \o <<"getSolver", "setStars">>
            /\ pc' = "raised"
            /\ err' = Str("AttributeError")
       ELSE /\ solver' = [center |-> dwLoc.radecCenter # None, indexes |-> 0, ran |-> FALSE,
                           timeLimit |-> None]
            /\ effects' = effects \o <<"getSolver", "setStars">>
                                  \o (IF dwLoc.radecCenter # None
                                      THEN <<"setRaDecRadius">> ELSE <<>>)
                                  \o <<"setScaleRange">>
            /\ pc' = "dwAddIndex"
            /\ UNCHANGED err
    /\ UNCHANGED <<call, solveVars, histVars, dwIn, dwLoc, astrom, meta, auxVars>>
    /\ UNCHANGED runVars

\* a loop that stops one index file short
IndexLoopOverEarly(s, in) == s.indexes >= in.nIndexFiles - 1

\* _solve, line 421: the for loop over andConfig.indexFiles is over when every
\* file of the list has had its pass
IndexLoopOver(s, in) == s.indexes = in.nIndexFiles

\* _solve, lines 421-426: one pass of the loop over andConfig.indexFiles
DwAddIndex ==
    /\ call = "determineWcs2" /\ pc = "dwAddIndex"
    /\ ~IndexLoopOver(solver, dwIn)
    /\ solver' = [solver EXCEPT !.indexes = @ + 1]
    /\ effects' = Append(effects, "addIndex")
    /\ UNCHANGED <<call, pc, err, solveVars, histVars, dwIn, dwLoc, astrom, meta, auxVars>>
    /\ UNCHANGED runVars

\* _solve, lines 428-448: the loop is over; the solver runs and _solve returns
DwRun ==
    /\ call = "determineWcs2" /\ pc = "dwAddIndex"
    /\ IndexLoopOver(solver, dwIn)
    /\ solver' = [solver EXCEPT !.ran = TRUE]
    /\ effects' = Append(effects, "run")
    /\ \E didSolve \in BOOLEAN :
          dwLoc' = [dwLoc EXCEPT !.wcs = IF didSolve THEN Str("solver.getWcs") ELSE None]
    /\ pc' = "dwGetRefs"
    /\ UNCHANGED <<call, err, solveVars, histVars, dwIn, astrom, meta, auxVars>>
    /\ UNCHANGED runVars

\* lines 182-184: getReferenceSourcesForWcs is a bound method and is passed self
\* again, so its parameter wcs is the Astrometry object; line 277 reads
\* wcs.pixelToSky of it
DwGetReferenceSources ==
    /\ call = "determineWcs2" /\ pc = "dwGetRefs"
    /\ pc' = "raised"
    /\ err' = Str("AttributeError")
    /\ UNCHANGED <<call, solveVars, histVars, dwVars, meta, auxVars>>
    /\ UNCHANGED runVars

DetermineWcs2Step ==
    \/ DwValidate
    \/ DwResolveHints
    \/ DwTrim
    \/ DwSolverSetup
    \/ DwAddIndex
    \/ DwRun
    \/ DwGetReferenceSources

(***************************************************************************)
(* Astrometry._calculateSipTerms (astrom.py), called on its own with the   *)
(* four arguments of its signature.                                        *)
(***************************************************************************)
\* astromSip.CreateWcsWithSip(matchList, wcs, sipOrder): it returns an object
\* with a new WCS, or raises
CreateWcsWithSipOutcomes(matchList, w) == {"returns", "raises"}

\* a local of _calculateSipTerms (proposedWcs, matchSize) before its first
\* assignment
Unbound == -1

CallCalculateSipTerms ==
    /\ pc = "idle"
    /\ \E w \in {InitWcs, 1}, m \in AllMatchLists :
          sip' = [origWcs |-> w, origMatchList |-> m,
                  wcs |-> w, matchList |-> m, i |-> 0,
                  proposedWcs |-> Unbound, matchSize |-> Unbound]
    /\ call' = "_calculateSipTerms"
    /\ pc' = "sipFit"
    /\ UNCHANGED <<err, solveVars, histVars, dwVars, meta, refs>>
    /\ UNCHANGED runVars

\* lines 235-245: CreateWcsWithSip returns; proposedWcs is a new WCS
SipCreateWcs ==
    /\ call = "_calculateSipTerms" /\ pc = "sipFit"
    /\ "returns" \in CreateWcsWithSipOutcomes(sip.matchList, sip.wcs)
    /\ sip' = [sip EXCEPT !.proposedWcs = sip.wcs + 2,
                          !.matchSize = Len(sip.matchList)]
    /\ pc' = "sipGetMatchList"
    /\ UNCHANGED <<call, err, solveVars, histVars, dwVars, meta, refs>>
    /\ UNCHANGED runVars

\* lines 236-241: CreateWcsWithSip raises; the except clause names
\* LsstCppException, which the module never binds (lines 1-13), so matching the
\* exception raises NameError and neither the warning nor the break is reached
SipCreateWcsRaises ==
    /\ call = "_calculateSipTerms" /\ pc = "sipFit"
    /\ "raises" \in CreateWcsWithSipOutcomes(sip.matchList, sip.wcs)
    /\ pc' = "raised"
    /\ err' = Str("NameError")
    /\ UNCHANGED <<call, solveVars, histVars, dwVars, meta, auxVars>>
    /\ UNCHANGED runVars

\* line 247 and _getMatchList, lines 259-261: self.cleaningParameter is read,
\* an attribute that no statement of the class sets, so AttributeError is
\* raised before the matcher is made (line 262, which also reads the unbound
\* name img); lines 248-256 are never reached
SipGetMatchList ==
    /\ call = "_calculateSipTerms" /\ pc = "sipGetMatchList"
    /\ pc' = "raised"
    /\ err' = Str("AttributeError")
    /\ UNCHANGED <<call, solveVars, histVars, dwVars, meta, auxVars>>
    /\ UNCHANGED runVars

CalculateSipTermsStep ==
    \/ SipCreateWcs
    \/ SipCreateWcsRaises
    \/ SipGetMatchList

(***************************************************************************)
(* Astrometry.getReferenceSourcesForWcs and Astrometry.getReferenceSources *)
(* (astrom.py), called on their own.                                       *)
(***************************************************************************)
CallGetReferenceSourcesForWcs ==
    /\ pc = "idle"
    /\ \E tr \in BOOLEAN : refs' = [trim |-> tr, cat |-> None]
    /\ call' = "getReferenceSourcesForWcs"
    /\ pc' = "grwCenter"
    /\ UNCHANGED <<err, solveVars, histVars, dwVars, meta, sip>>
    /\ UNCHANGED runVars

\* line 277: wcs.pixelToSky(xc, yc) reads xc, which is neither a parameter nor
\* a local of the method nor a name of the module, so NameError is raised
\* before the catalogue is read, projected or trimmed
GrwCenter ==
    /\ call = "getReferenceSourcesForWcs" /\ pc = "grwCenter"
    /\ pc' = "raised"
    /\ err' = Str("NameError")
    /\ UNCHANGED <<call, solveVars, histVars, dwVars, meta, auxVars>>
    /\ UNCHANGED runVars

\* A column of andConfig (starGalaxyColumn, variableColumn, the entry of
\* magErrorColumnMap for the filter): None, or a name that is or is not among
\* solver.getTagAlongColumns()
ColumnStates == {"notConfigured", "present", "absent"}

\* lines 319-335: the assert of a column that is configured
ColumnAssertFails(col) == col = "absent"

\* lines 346-350
IsStar(stargal, variable, k) ==
    /\ stargal = None \/ stargal.values[k]
    /\ variable = None \/ ~variable.values[k]

CallGetReferenceSources ==
    /\ pc = "idle"
    /\ \E sg \in ColumnStates, vr \in ColumnStates, me \in ColumnStates,
          n \in 0..MaxMatches :
          refs' = [sgCol |-> sg, varCol |-> vr, magerrCol |-> me, n |-> n,
                   stargal |-> None, variable |-> None, magerr |-> None,
                   cat |-> <<>>]
    /\ call' = "getReferenceSources"
    /\ pc' = "grColumns"
    /\ UNCHANGED <<err, solveVars, histVars, dwVars, meta, sip>>
    /\ UNCHANGED runVars

\* lines 297-335: the catalogue is read, then the three columns
GrColumns ==
    /\ call = "getReferenceSources" /\ pc = "grColumns"
    /\ IF \/ ColumnAssertFails(refs.sgCol)
          \/ ColumnAssertFails(refs.varCol)
          \/ ColumnAssertFails(refs.magerrCol)
       THEN /\ pc' = "raised"
            /\ err' = Str("AssertionError")
            /\ UNCHANGED refs
       ELSE /\ \E sg \in [1..refs.n -> BOOLEAN], vr \in [1..refs.n -> BOOLEAN] :
                  refs' = [refs EXCEPT
                      !.stargal = IF refs.sgCol = "present"
                                  THEN [values |-> sg] ELSE None,
                      !.variable = IF refs.varCol = "present"
                                   THEN [values |-> vr] ELSE None,
                      !.magerr = IF refs.magerrCol = "present"
                                 THEN Str("magerr") ELSE None]
            /\ pc' = "grFlags"
            /\ UNCHANGED err
    /\ UNCHANGED <<call, solveVars, histVars, dwVars, meta, sip>>
    /\ UNCHANGED runVars

\* lines 337-352: the STAR flag of every object
GrFlags ==
    /\ call = "getReferenceSources" /\ pc = "grFlags"
    /\ refs' = [refs EXCEPT !.cat =
                    [k \in 1..refs.n |->
                        [star |-> IsStar(refs.stargal, refs.variable, k),
                         psfFluxErr |-> None]]]
    /\ pc' = "grFluxErr"
    /\ UNCHANGED <<call, err, solveVars, histVars, dwVars, meta, sip>>
    /\ UNCHANGED runVars

\* lines 354-360: the flux errors.  Line 358 reads numpy, which the module never
\* binds (lines 1-13), so the first pass of the loop raises NameError
GrFluxErr ==
    /\ call = "getReferenceSources" /\ pc = "grFluxErr"
    /\ IF refs.magerr # None /\ refs.n > 0
       THEN pc' = "raised" /\ err' = Str("NameError")
       ELSE pc' = "done" /\ UNCHANGED err
    /\ UNCHANGED <<call, solveVars, histVars, dwVars, meta, auxVars>>
    /\ UNCHANGED runVars

GetReferenceSourcesStep ==
    \/ GrwCenter
    \/ GrColumns
    \/ GrFlags
    \/ GrFluxErr

Next ==
    \/ CallSolve
    \/ SolveStep
    \/ RunSetWcs
    \/ CallCreateMatchMetadata
    \/ CallCreateMetadata
    \/ CallDetermineWcs2
    \/ DetermineWcs2Step
    \/ CallCalculateSipTerms
    \/ CalculateSipTermsStep
    \/ CallGetReferenceSourcesForWcs
    \/ CallGetReferenceSources
    \/ GetReferenceSourcesStep

Spec == Init /\ [][Next]_vars

\* A call that was started runs on: every step of solve and of
\* _calculateSipTerms either returns or raises.
FairSpec == Spec /\ WF_vars(SolveStep) /\ WF_vars(CalculateSipTermsStep)

(***************************************************************************)
(* Properties of AstrometryTask.solve.                                     *)
(***************************************************************************)
InSolve == call = "solve"

\* C1: with forceKnownWcs false, an iteration after the first stops the loop,
\* keeping the accepted result, if it has strictly fewer matches or as many
\* matches and a scatter at least as large; otherwise it replaces the accepted
\* result and the loop goes on while iterations remain.  What is returned is
\* the accepted result.
C1_RegressionGuard ==
    [][ /\ (InSolve /\ pc = "check" /\ ~config.forceKnownWcs /\ res # None) =>
            IF \/ Len(tryRes.matches) < Len(res.matches)
               \/ /\ Len(tryRes.matches) = Len(res.matches)
                  /\ tryRes.scatterOnSky.asArcseconds >= res.scatterOnSky.asArcseconds
            THEN pc' = "return" /\ res' = res
            ELSE /\ res' = tryRes
                 /\ pc' = IF i + 1 < config.maxIter THEN "match" ELSE "return"
        /\ (InSolve /\ pc = "return" /\ ~config.forceKnownWcs) =>
            /\ retVal'.matches = res.matches
            /\ retVal'.wcs = res.wcs
            /\ retVal'.scatterOnSky = res.scatterOnSky
      ]_vars

\* C1 witness: the second iteration was accepted and the third was rejected.
C1_Witness ==
    /\ InSolve /\ pc = "done" /\ ~config.forceKnownWcs
    /\ nCompare = 2 /\ i = 2 /\ tryRes # res
    /\ retVal.wcs = 2

\* C2: solve terminates, having run _matchAndFitWcs at least once and at most
\* maxIter times.
C2_SolveTerminates ==
    /\ InSolve ~> (InSolve /\ Ended)
    /\ [](InSolve => nMatchAndFit <= config.maxIter)
    /\ []((InSolve /\ Ended) => nMatchAndFit >= 1)

\* C2 witness: solve returned after maxIter > 1 passes.
C2_Witness ==
    /\ InSolve /\ pc = "done"
    /\ config.maxIter > 1 /\ nMatchAndFit = config.maxIter

\* C3: with forceKnownWcs set, exactly one match-and-fit pass is run whatever
\* maxIter is, and no comparison with a previous iteration is made.
C3_ForceKnownWcsOnePass ==
    (InSolve /\ config.forceKnownWcs) =>
        /\ nMatchAndFit <= 1
        /\ nCompare = 0
        /\ pc \in {"return", "done"} => nMatchAndFit = 1

\* C3 witness: solve returned with forceKnownWcs set and maxIter > 1.
C3_Witness ==
    /\ InSolve /\ pc = "done" /\ config.forceKnownWcs
    /\ config.maxIter > 1 /\ nMatchAndFit = 1

\* C4: with forceKnownWcs set the fitter is never called; the result has the
\* initial WCS, scatterOnSky None, and the matches the matcher returned under
\* the initial WCS.
C4_ForceKnownWcsKeepsWcs ==
    [][ (InSolve /\ config.forceKnownWcs) =>
            /\ nFitter' = 0
            /\ pc = "fit" =>
                  /\ matchRes.wcs = InitWcs
                  /\ pc' = "check"
                  /\ tryRes'.matches = matchRes.matches
            /\ pc' = "done" =>
                  /\ retVal'.wcs = InitWcs
                  /\ retVal'.initWcs = InitWcs
                  /\ retVal'.scatterOnSky = None
                  /\ retVal'.matches = tryRes'.matches
                  /\ nMatchAndFit' = 1
      ]_vars

\* C4 witness: solve returned a non-empty match list with forceKnownWcs set.
C4_Witness ==
    /\ InSolve /\ pc = "done" /\ config.forceKnownWcs
    /\ Len(retVal.matches) > 0 /\ nFitter = 0

\* a > b (IEEE: false when either is nan)
GreaterVal(a, b) == ~IsNan(a) /\ ~IsNan(b) /\ ~LeqVal(a, b)

\* C5 (as claimed): the tolerance computed after an accepted iteration is never
\* larger than the tolerance that iteration was matched with.  It is stated for
\* the iterations matched with a computed tolerance, so that it does not rest
\* on the matcher's default.
C5_ToleranceNonIncreasing ==
    [][ (/\ InSolve /\ pc = "check" /\ ~config.forceKnownWcs
         /\ i' = i + 1 /\ maxMatchDistArcSec # None) =>
            ~GreaterVal(maxMatchDistArcSec', maxMatchDistArcSec)
      ]_vars

\* C6 (as claimed): when the first match attempt yields zero matches solve does
\* not return normally, and no result it returns carries an empty match list.
C6_NoMatchesFails ==
    (InSolve /\ pc = "done") => (~firstMatchEmpty /\ retVal.matches # <<>>)

\* C7 (as claimed): with forceKnownWcs false, solve does not return a result
\* once an iteration after the first has yielded zero matches.  It is stated for
\* the calls whose first iteration found matches.
C7_LaterNoMatchesFails ==
    (InSolve /\ ~config.forceKnownWcs /\ ~firstMatchEmpty /\ zeroAfterFirst) => pc # "done"

\* Two matches of the list returned carry one reference identifier: the
\* catalogue has two objects with one identifier and every object of it is
\* matched (a match list pairs each reference object at most once).
HasDuplicateRefId(r) ==
    r.refCat.duplicateIds /\ Len(r.matches) = r.refCat.size

\* C16 (as claimed): in the match list solve returns, no reference object
\* identifier appears in more than one match.
C16_MatchesOneToOne ==
    (InSolve /\ pc = "done") => ~HasDuplicateRefId(retVal)

(***************************************************************************)
(* Properties of the metadata builders.                                    *)
(***************************************************************************)
FilterKnown(fn) == fn \notin {None, Str("")}

MetadataAsSpecified(m, fn) ==
    /\ {"RA", "DEC", "RADIUS", "SMATCHV"} \subseteq DOMAIN m
    /\ m["SMATCHV"] = 1
    /\ ("FILTER" \in DOMAIN m) <=> FilterKnown(fn)

\* C8 (as claimed): every metadata record has RA, DEC, RADIUS and SMATCHV = 1,
\* and has FILTER exactly when the filter name is neither None nor "".
C8_MetadataKeys ==
    /\ meta # None => MetadataAsSpecified(meta, filterName)
    /\ retVal # None => MetadataAsSpecified(retVal.matchMeta, filterName)

(***************************************************************************)
(* Properties of Astrometry.determineWcs2.                                 *)
(***************************************************************************)
InDetermineWcs2 == call = "determineWcs2"

ContradictoryInput(in) ==
    \/ in.radecCenter /\ ~in.useRaDecCenter
    \/ in.pixelScale /\ ~in.usePixelScale
    \/ in.exposure = "none" /\ ~in.imageSize

\* C9: on a hint given with its use flag off, or no image size from exposure or
\* imageSize, determineWcs2 raises RuntimeError with no solver made, no index
\* added, no catalogue queried and the exposure untouched.
C9_ConfigurationErrorFirst ==
    (InDetermineWcs2 /\ ContradictoryInput(dwIn)) =>
        /\ pc = "dwValidate" \/ (pc = "raised" /\ err = Str("RuntimeError"))
        /\ solver = None
        /\ effects = <<>>
        /\ dwLoc = None

\* C9 witness: the image size is missing, the hints are consistent, and the call
\* has raised.
C9_Witness ==
    /\ InDetermineWcs2 /\ pc = "raised"
    /\ dwIn.exposure = "none" /\ ~dwIn.imageSize /\ ~HintConflict(dwIn)
    /\ dwIn.radecCenter /\ dwIn.pixelScale

\* C10 (as claimed): _solve is entered with a center only if searchRadius is
\* set, and deriving the search radius never fails the assertion.
C10_SearchRadiusResolvable ==
    InDetermineWcs2 =>
        /\ err # Str("AssertionError")
        /\ (pc = "dwSolve" /\ dwLoc.radecCenter # None) => dwLoc.searchRadius # None

\* the blind solver has run
SolverRan == solver # None /\ solver.ran

\* C11 (as claimed): when the blind solver finds no solution, determineWcs2
\* raises no exception and goes on to report the outcome to its caller.
C11_NotSolvedReported ==
    (InDetermineWcs2 /\ SolverRan /\ dwLoc.wcs = None) =>
        /\ pc # "raised"
        /\ err = None

\* C12 (as claimed): the blind solve runs under a time budget: the solver is
\* run only after it was given a limit.
C12_SolveTimeBudget ==
    [][ (InDetermineWcs2 /\ pc = "dwAddIndex" /\ solver'.ran) =>
            solver.timeLimit # None ]_vars

\* C17 (as claimed): once the solver has given a WCS, determineWcs2 goes on
\* to the match list and its check for duplicate reference identifiers, which
\* only warns: the call does not fail on the way to its result.
C17_DuplicateWarningNonFatal ==
    [][ (InDetermineWcs2 /\ pc = "dwGetRefs" /\ dwLoc.wcs # None) =>
            /\ pc' # "raised"
            /\ err' = None
      ]_vars

\* C18 (as claimed): a call that found a WCS ends by returning its
\* InitialAstrometry, never by an exception; when that result carries no
\* matches its WCS is None too and the exposure's WCS was not set.
C18_EmptyResultReported ==
    (InDetermineWcs2 /\ SolverRan /\ dwLoc.wcs # None /\ Ended) =>
        /\ pc = "done"
        /\ astrom.matches = None =>
              /\ astrom.wcs = None
              /\ \A k \in 1..Len(effects) : effects[k] # "setWcs"

(***************************************************************************)
(* Properties of Astrometry._calculateSipTerms.                            *)
(***************************************************************************)
InSip == call = "_calculateSipTerms"

\* C13 (as claimed): after a refit, either the re-match has strictly more
\* matches and the proposed WCS and match list are accepted, or the call
\* returns, keeping the accepted WCS and its match list.
C13_SipRegressionGuard ==
    [][ (InSip /\ pc = "sipGetMatchList") =>
            \/ /\ pc' = "sipFit"
               /\ sip'.wcs = sip.proposedWcs
               /\ Len(sip'.matchList) > sip.matchSize
            \/ /\ pc' = "done"
               /\ sip'.wcs = sip.wcs
               /\ sip'.matchList = sip.matchList
      ]_vars

C15_SipFixedPoint ==
    (InSip /\ Ended /\ sip.i = 0) =>
        /\ pc = "done"
        /\ sip.wcs = sip.origWcs
        /\ sip.matchList = sip.origMatchList

(***************************************************************************)
(* Properties of the reference catalogue readers.                          *)
(***************************************************************************)
\* C19 (as claimed): with trim enabled, getReferenceSourcesForWcs returns the
\* catalogue, cut to the image bounds grown by the pixel margin.
C19_TrimToImageBounds ==
    (call = "getReferenceSourcesForWcs" /\ refs.trim /\ Ended) =>
        /\ pc = "done"
        /\ refs.cat # None

InGetReferenceSources == call = "getReferenceSources"

ColumnMissing(col) == col \in {"notConfigured", "absent"}

\* C20 (as claimed): when the star/galaxy, the variability and the
\* magnitude-error column are each not configured or absent from the
\* tag-along columns, getReferenceSources does not fail, and the flux error
\* of every object it returns is left unset.
C20_MissingColumnsTolerated ==
    (/\ InGetReferenceSources
     /\ ColumnMissing(refs.sgCol)
     /\ ColumnMissing(refs.varCol)
     /\ ColumnMissing(refs.magerrCol)) =>
        /\ pc # "raised"
        /\ pc = "done" => \A k \in 1..Len(refs.cat) : refs.cat[k].psfFluxErr = None

(***************************************************************************)
(* Failure of the WCS fit.                                                 *)
(***************************************************************************)
\* the fitter failed inside the call that has ended: in solve the fitter's
\* exception is the one that left the call; in _calculateSipTerms the failure
\* of CreateWcsWithSip is met by the except clause of line 239, whose
\* evaluation is what raises
FitFailed ==
    \/ InSolve /\ err = Str("FitError")
    \/ InSip /\ err = Str("NameError")

\* C21 (as claimed): a failed fit is handed to the caller in a returned
\* result; neither solve nor _calculateSipTerms ends in an exception because
\* the fitter failed.
C21_FitFailureReported == FitFailed => pc # "raised"

(***************************************************************************)
(* Order of the solver calls in _solve.                                    *)
(***************************************************************************)
\* calls that give the solver an index or a search constraint
SolverSettings == {"setStars", "setRaDecRadius", "setScaleRange", "addIndex"}

\* positions of solver.run() in the calls made so far
RunPositions == {k \in DOMAIN effects : effects[k] = "run"}

\* C23: in _solve, solver.run() is invoked at most once, and exactly once by
\* the time _solve has returned; when it is invoked every index file of
\* andConfig.indexFiles has been added, and no index or search constraint is
\* given to the solver after it.
C23_IndexesBeforeRun ==
    InDetermineWcs2 =>
        /\ Cardinality(RunPositions) <= 1
        /\ pc = "dwGetRefs" => Cardinality(RunPositions) = 1
        /\ \A k \in RunPositions :
              /\ Cardinality({j \in 1..(k - 1) : effects[j] = "addIndex"}) = dwIn.nIndexFiles
              /\ \A j \in (k + 1)..Len(effects) : effects[j] \notin SolverSettings

\* _solve has returned from a run over two index files or more
C23_Witness ==
    /\ InDetermineWcs2
    /\ pc = "dwGetRefs"
    /\ dwIn.nIndexFiles >= 2
    /\ RunPositions # {}

(***************************************************************************)
(* The exposure's WCS and the initial WCS.                                 *)
(***************************************************************************)
\* run has given the exposure the WCS of the result of solve (line 159)
InRun == call = "run"

\* C24: the Struct returned by solve holds the initial WCS it was given as
\* initWcs; no step of solve changes the WCS of the exposure; the exposure
\* holds a WCS other than the one it came with only when solve has returned
\* and run has set it, to the WCS of the result; when solve raises the
\* exposure keeps its WCS.
C24_ExposureWcsSetAfterSolve ==
    /\ retVal # None => retVal.initWcs = InitWcs
    /\ InSolve => exposureWcs = InitWcs
    /\ pc = "raised" => exposureWcs = InitWcs
    /\ InRun => /\ pc = "done"
                /\ retVal # None
                /\ exposureWcs = retVal.wcs

\* run has given the exposure a fitted WCS, that of the second iteration
C24_Witness ==
    /\ InRun
    /\ exposureWcs = 2
    /\ retVal.initWcs = InitWcs

(***************************************************************************)
(* The result returned is the best iteration tried.                        *)
(***************************************************************************)
\* match count and scatter of a result
ScoreOf(r) == [nMatches |-> Len(r.matches), scatter |-> r.scatterOnSky.asArcseconds]

\* the iteration just tried was rejected: the loop was left by a break of
\* lines 225-235 and res is an earlier result
LastTryRejected ==
    /\ pc \in {"return", "done"}
    /\ tryRes # None /\ res # None
    /\ tryRes.wcs # res.wcs

\* C25: with forceKnownWcs false, no iteration tried in the call has more
\* matches than the result returned, or as many matches with less scatter;
\* the WCS of a rejected iteration is not the one returned, and every
\* iteration starts from the initial WCS or from the WCS of an accepted one.
C25_BestIterationReturned ==
    (call \in {"solve", "run"} /\ ~config.forceKnownWcs) =>
        /\ retVal # None => ~StrictlyBetter(bestTried, ScoreOf(retVal))
        /\ LastTryRejected =>
              /\ wcs # tryRes.wcs
              /\ retVal # None => retVal.wcs # tryRes.wcs
        /\ pc \in {"match", "fit"} =>
              wcs = IF res = None THEN InitWcs ELSE res.wcs

\* solve has returned the second of three iterations tried: the third was
\* rejected
C25_Witness ==
    /\ InSolve /\ pc = "done"
    /\ ~config.forceKnownWcs
    /\ nFitter = 3
    /\ LastTryRejected
    /\ retVal.wcs = 2

(***************************************************************************)
(* Order of the steps of one solve call.                                   *)
(***************************************************************************)
\* C26: in a call of solve the reference loader is invoked once, before the
\* first match and with the initial WCS; in each iteration the matcher has
\* run when the fitter is called; every iteration matches against the
\* catalogue that was loaded, which is the refCat returned; the match
\* metadata exists only once the loop has ended and solve has returned, and
\* is made from the bounding box and the WCS of the result returned.
C26_SolveOrder ==
    call \in {"solve", "run"} =>
        /\ nLoad <= 1
        /\ pc = "load" => nLoad = 0 /\ nMatchAndFit = 0
        /\ pc # "load" => nLoad = 1 /\ loadRes.wcs = InitWcs
        /\ pc = "fit" => matchRes # None /\ nFitter < nMatchAndFit
        /\ (UsesFitter(config) /\ pc # "fit") => nFitter = nMatchAndFit
        /\ matchRes # None => matchRes.refCat = loadRes.refCat
        /\ pc # "done" => retVal = None
        /\ retVal # None =>
              /\ retVal.refCat.size = loadRes.refCat
              /\ \A key \in {"RA", "DEC", "RADIUS"} :
                    retVal.matchMeta[key] = CreateMatchMetadata("bbox", retVal.wcs, None)[key]

\* solve has returned after two iterations or more, with a fitted WCS
C26_Witness ==
    /\ InSolve /\ pc = "done"
    /\ nLoad = 1
    /\ nMatchAndFit >= 2
    /\ nFitter = nMatchAndFit
    /\ retVal.wcs # InitWcs


=============================================================================
